---- MODULE Spec2Model ----
(***************************************************************************)
(* GitHub Developer Profiler backend (backend.py, given in                 *)
(* GITHUB_PROFILER_SPEC.md): aggregation of commits per author, profile    *)
(* synthesis with the reasoning service, merge of profiles across          *)
(* repositories, the profiles.json store and free-text search; the         *)
(* Express server with its in-memory interest list; and the match panel    *)
(* of the React dashboard (App.js).                                        *)
(***************************************************************************)
EXTENDS Integers, Sequences, FiniteSets, TLC

(* ---------------- bounds of the model ---------------- *)
\* number of repository urls in one POST /analyze request
MaxRepos == 2
\* number of commits one fetch of a repository returns
MaxCommits == 3

(* ---------------- program constants ---------------- *)
\* analyze_repository: developers with fewer commits are skipped
MinCommits == 2
\* analyze_repos: the merged expertise_areas list is cut to this length
MaxAreas == 5
\* generate_profile: languages.most_common(5)
TopLanguages == 5
\* generate_profile: top_languages[:3]
PrimaryLanguages == 3

None == "None"

Min(S) == CHOOSE m \in S : \A n \in S : m <= n

\* python slice s[:n]
Take(s, n) == SubSeq(s, 1, IF n < Len(s) THEN n ELSE Len(s))

Range(s) == {s[i] : i \in 1..Len(s)}

\* str.endswith on strings given as sequences of characters
EndsWith(s, suf) ==
    /\ Len(s) >= Len(suf)
    /\ SubSeq(s, Len(s) - Len(suf) + 1, Len(s)) = suf

(* ---------------- detect_language ---------------- *)
ext_map ==
    << << <<".", "p", "y">>, "Python" >>,
       << <<".", "j", "s">>, "JavaScript" >>,
       << <<".", "t", "s">>, "TypeScript" >>,
       << <<".", "j", "s", "x">>, "React" >>,
       << <<".", "t", "s", "x">>, "React" >>,
       << <<".", "j", "a", "v", "a">>, "Java" >>,
       << <<".", "g", "o">>, "Go" >>,
       << <<".", "r", "s">>, "Rust" >>,
       << <<".", "c", "p", "p">>, "C++" >>,
       << <<".", "c">>, "C" >>,
       << <<".", "r", "b">>, "Ruby" >>,
       << <<".", "p", "h", "p">>, "PHP" >>,
       << <<".", "s", "w", "i", "f", "t">>, "Swift" >>,
       << <<".", "k", "t">>, "Kotlin" >>,
       << <<".", "s", "c", "a", "l", "a">>, "Scala" >>,
       << <<".", "s", "q", "l">>, "SQL" >>,
       << <<".", "s", "h">>, "Shell" >>,
       << <<".", "y", "m", "l">>, "YAML" >>,
       << <<".", "y", "a", "m", "l">>, "YAML" >>,
       << <<".", "j", "s", "o", "n">>, "JSON" >>,
       << <<".", "m", "d">>, "Markdown" >> >>

\* first entry of ext_map whose extension ends the filename, else None
detect_language(filename) ==
    LET hits == {i \in 1..Len(ext_map) : EndsWith(filename, ext_map[i][1])}
    IN  IF hits = {} THEN None ELSE ext_map[Min(hits)][2]

(* ---------------- collections.Counter ---------------- *)
\* a Counter is kept as the sequence of <<key, count>> in insertion order
CounterIncr(counter, key) ==
    IF \E i \in 1..Len(counter) : counter[i][1] = key
    THEN [i \in 1..Len(counter) |->
            IF counter[i][1] = key THEN <<key, counter[i][2] + 1>> ELSE counter[i]]
    ELSE Append(counter, <<key, 1>>)

RemoveAt(s, i) == SubSeq(s, 1, i - 1) \o SubSeq(s, i + 1, Len(s))

\* Counter.most_common(n): by count, descending; equal counts in the order
\* first encountered
RECURSIVE most_common(_, _)
most_common(counter, n) ==
    IF n = 0 \/ counter = <<>> THEN <<>>
    ELSE LET best == Min({i \in 1..Len(counter) :
                            \A j \in 1..Len(counter) : counter[j][2] <= counter[i][2]})
         IN  <<counter[best]>> \o most_common(RemoveAt(counter, best), n - 1)

(* ---------------- the people and files of the model ---------------- *)
Users == {"alice", "bob"}

\* commit.author.name of a login (None: the account has no display name)
NameOf(login) == IF login = "alice" THEN "Alice A" ELSE None

AvatarOf(login) == IF login = "alice" THEN "https://a/alice.png" ELSE "https://a/bob.png"

MainPy == <<"m", ".", "p", "y">>
IndexJs == <<"i", ".", "j", "s">>
Readme == <<"R", "E", "A", "D">>

(* ---------------- analyze_repository: grouping by author ---------------- *)
\* author_data is the dict keyed by login, kept as the sequence of its
\* entries in insertion order
NewEntry(login) ==
    [login |-> login,
     name |-> IF NameOf(login) # None THEN NameOf(login) ELSE login,
     avatar_url |-> AvatarOf(login),
     commits |-> <<>>,
     files_changed |-> <<>>,
     languages |-> <<>>]

RECURSIVE AddFiles(_, _)
AddFiles(entry, files) ==
    IF files = <<>> THEN entry
    ELSE LET f == Head(files)
             lang == detect_language(f)
         IN  AddFiles([entry EXCEPT !.files_changed = Append(@, f),
                                    !.languages = IF lang # None
                                                  THEN CounterIncr(@, lang) ELSE @],
                      Tail(files))

\* one iteration of `for commit in commits`
AddCommit_strict(data, commit) ==
    IF commit.author = None \/ ~commit.files_ok THEN data
    ELSE LET d1 == IF \E i \in 1..Len(data) : data[i].login = commit.author
                   THEN data ELSE Append(data, NewEntry(commit.author))
             k == CHOOSE i \in 1..Len(d1) : d1[i].login = commit.author
             e1 == [d1[k] EXCEPT !.commits =
                        Append(@, [additions |-> commit.additions,
                                   deletions |-> commit.deletions])]
         IN  [d1 EXCEPT ![k] = AddFiles(e1, commit.files)]

AddCommit_anon(data, commit) ==
    LET d1 == IF \E i \in 1..Len(data) : data[i].login = commit.author
              THEN data ELSE Append(data, NewEntry(commit.author))
        k == CHOOSE i \in 1..Len(d1) : d1[i].login = commit.author
        e1 == [d1[k] EXCEPT !.commits =
                   Append(@, [additions |-> commit.additions,
                              deletions |-> commit.deletions])]
        e2 == IF commit.files_ok THEN AddFiles(e1, commit.files) ELSE e1
    IN  [d1 EXCEPT ![k] = e2]

AddCommit(data, commit) ==
    IF commit.author = None THEN data
    ELSE LET d1 == IF \E i \in 1..Len(data) : data[i].login = commit.author
                   THEN data ELSE Append(data, NewEntry(commit.author))
             k == CHOOSE i \in 1..Len(d1) : d1[i].login = commit.author
             e1 == [d1[k] EXCEPT !.commits =
                        Append(@, [additions |-> commit.additions,
                                   deletions |-> commit.deletions])]
             \* commit.files raising is swallowed by the inner except
             e2 == IF commit.files_ok THEN AddFiles(e1, commit.files) ELSE e1
         IN  [d1 EXCEPT ![k] = e2]

\* `for commit in commits` (Len(data) is never negative: the test makes TLC
\* evaluate author_data at every iteration, as the loop does, instead of
\* at the end of a long history)
RECURSIVE Aggregate(_, _)
Aggregate(data, commits) ==
    IF commits = <<>> \/ Len(data) < 0 THEN data
    ELSE Aggregate(AddCommit(data, Head(commits)), Tail(commits))

(* ---------------- the reasoning service and its response text ---------------- *)
\* A JSON value is [jt, val]; a response text is a sequence of tokens
\* [t, v]: a ``` fence, the language tag json, prose, or the text of one
\* JSON value.
JObject(f) == [jt |-> "object", val |-> f]
JArray(s) == [jt |-> "array", val |-> s]
JNumber(n) == [jt |-> "number", val |-> n]
JNull == [jt |-> "null", val |-> 0]

Fence == [t |-> "fence", v |-> JNull]
Tag == [t |-> "tag", v |-> JNull]
Prose == [t |-> "prose", v |-> JNull]
JsonText(j) == [t |-> "json", v |-> j]

\* outcomes of claude_client.messages.create(...).content[0].text
ServiceError == [kind |-> "error", text |-> <<>>]
ServiceTimeout == [kind |-> "timeout", text |-> <<>>]
ServiceText(tokens) == [kind |-> "text", text |-> tokens]

Ok(v) == [exc |-> "none", val |-> v]
Raise(e) == [exc |-> e, val |-> <<>>]

\* `except cls`: every exception raised here derives from Exception
Catches(cls, exc) == cls = "Exception" \/ cls = exc

\* if text.startswith("```"): text = text.split("```")[1];
\*                            if text.startswith("json"): text = text[4:]
strip_fences(text) ==
    IF text # <<>> /\ text[1].t = "fence"
    THEN LET rest == Tail(text)
             closing == {i \in 1..Len(rest) : rest[i].t = "fence"}
             part == IF closing = {} THEN rest ELSE SubSeq(rest, 1, Min(closing) - 1)
         IN  IF part # <<>> /\ part[1].t = "tag" THEN Tail(part) ELSE part
    ELSE text

\* json.loads: the text must be exactly one JSON value
json_loads(text) ==
    IF Len(text) = 1 /\ text[1].t = "json" THEN Ok(text[1].v)
    ELSE Raise("JSONDecodeError")

\* the call and the repair/parse steps shared by generate_profile and
\* search_profiles
call_and_parse(outcome) ==
    IF outcome.kind = "error" THEN Raise("APIError")
    ELSE IF outcome.kind = "timeout" THEN Raise("APITimeoutError")
    ELSE json_loads(strip_fences(outcome.text))

(* ---------------- generate_profile ---------------- *)
SynthKeys == {"expertise_areas", "frameworks", "work_style",
              "commit_pattern", "ai_summary", "best_for"}

\* {**base, **upd}
DictUpdate(base, upd) ==
    [k \in (DOMAIN base) \cup (DOMAIN upd) |->
        IF k \in DOMAIN upd THEN upd[k] ELSE base[k]]

top_languages(commit_data) == most_common(commit_data.languages, TopLanguages)

BasicData(username, commit_data, repo_name) ==
    LET top == Take(top_languages(commit_data), PrimaryLanguages)
    IN  [github_username |-> username,
         name |-> commit_data.name,
         avatar_url |-> commit_data.avatar_url,
         total_commits |-> Len(commit_data.commits),
         primary_languages |-> [i \in 1..Len(top) |-> top[i][1]],
         repo_analyzed |-> repo_name]

\* the body of the try block
SynthesisTry(username, commit_data, repo_name, outcome) ==
    LET parsed == call_and_parse(outcome)
    IN  IF parsed.exc # "none" THEN parsed
        ELSE IF parsed.val.jt # "object" THEN Raise("TypeError")
        ELSE Ok(DictUpdate(BasicData(username, commit_data, repo_name),
                           parsed.val.val))

\* the profile of the except block
FallbackProfile_nolang(username, commit_data, repo_name) ==
    DictUpdate(BasicData(username, commit_data, repo_name),
        [primary_languages |-> <<>>,
         expertise_areas |-> <<"Code contribution">>,
         frameworks |-> <<>>,
         work_style |-> "active contributor",
         commit_pattern |-> "Made " \o ToString(Len(commit_data.commits)) \o " commits",
         ai_summary |-> "Active contributor to " \o repo_name,
         best_for |-> <<"Code review", "Technical questions">>])

FallbackProfile(username, commit_data, repo_name) ==
    DictUpdate(BasicData(username, commit_data, repo_name),
        [expertise_areas |-> <<"Code contribution">>,
         frameworks |-> <<>>,
         work_style |-> "active contributor",
         commit_pattern |-> "Made " \o ToString(Len(commit_data.commits)) \o " commits",
         ai_summary |-> "Active contributor to " \o repo_name,
         best_for |-> <<"Code review", "Technical questions">>])

generate_profile_narrow(username, commit_data, repo_name, outcome) ==
    LET r == SynthesisTry(username, commit_data, repo_name, outcome)
    IN  IF r.exc = "none" THEN r
        ELSE IF Catches("JSONDecodeError", r.exc)
             THEN Ok(FallbackProfile(username, commit_data, repo_name))
             ELSE r

generate_profile(username, commit_data, repo_name, outcome) ==
    LET r == SynthesisTry(username, commit_data, repo_name, outcome)
    IN  IF r.exc = "none" THEN r
        ELSE IF Catches("Exception", r.exc)
             THEN Ok(FallbackProfile(username, commit_data, repo_name))
             ELSE r

(* ---------------- analyze_repository ---------------- *)
\* repo.get_commits()[:100]
CommitLimit == 100

FetchFailed == [ok |-> FALSE, commits |-> <<>>]
Fetched(commits) == [ok |-> TRUE, commits |-> commits]

\* repo.name of a repository url
RepoName(repo_url) == IF repo_url = "u1" THEN "repo1" ELSE "repo2"

\* logins that pass `len(data["commits"]) < 2: continue`
Qualifying(data) ==
    {data[i].login : i \in {j \in 1..Len(data) : Len(data[j].commits) >= MinCommits}}

\* one iteration of `for username, data in author_data.items()`; outs
\* gives the outcome of the service call made for each login;
\* acc = [exc, val, calls], calls the logins generate_profile called the
\* service for, one entry a call
ProfileStep_retry(e, repo_name, outs, acc) ==
    IF Len(e.commits) < MinCommits THEN acc
    ELSE LET r == generate_profile(e.login, e, repo_name, outs[e.login])
             failed == SynthesisTry(e.login, e, repo_name, outs[e.login]).exc # "none"
             calls == IF failed THEN acc.calls \o <<e.login, e.login>>
                      ELSE Append(acc.calls, e.login)
         IN  [exc |-> r.exc, val |-> Append(acc.val, r.val), calls |-> calls]

ProfileStep(e, repo_name, outs, acc) ==
    IF Len(e.commits) < MinCommits THEN acc
    ELSE LET r == generate_profile(e.login, e, repo_name, outs[e.login])
             calls == Append(acc.calls, e.login)
         IN  IF r.exc # "none"
             THEN [exc |-> r.exc, val |-> acc.val, calls |-> calls]
             ELSE [exc |-> "none", val |-> Append(acc.val, r.val), calls |-> calls]

\* `for username, data in author_data.items()`
RECURSIVE ProfilesFrom(_, _, _, _)
ProfilesFrom(data, repo_name, outs, acc) ==
    IF data = <<>> \/ acc.exc # "none" THEN acc
    ELSE ProfilesFrom(Tail(data), repo_name, outs,
                      ProfileStep(Head(data), repo_name, outs, acc))

\* result [exc, val, calls, data]: val the returned profiles, calls the
\* logins the service was called for, data the grouped author_data; any
\* exception leaves as HTTPException(400)
analyze_repository(repo_url, fetch, outs) ==
    IF ~fetch.ok
    THEN [exc |-> "GithubException", val |-> <<>>, calls |-> <<>>, data |-> <<>>]
    ELSE LET data == Aggregate(<<>>, Take(fetch.commits, CommitLimit))
             r == ProfilesFrom(data, RepoName(repo_url), outs,
                               [exc |-> "none", val |-> <<>>, calls |-> <<>>])
         IN  [exc |-> r.exc, val |-> r.val, calls |-> r.calls, data |-> data]

(* ---------------- analyze_repos: merge across repositories ---------------- *)
\* list(a_set): a set of strings is iterated in the order of the hashes of
\* its elements, which are seeded when the process starts; hash_order is
\* that order on the strings of the model
RECURSIVE Orders(_)
Orders(S) ==
    IF S = {} THEN {<<>>}
    ELSE UNION {{<<x>> \o o : o \in Orders(S \ {x})} : x \in S}

RECURSIVE Filter(_, _)
Filter(s, S) ==
    IF s = <<>> THEN <<>>
    ELSE IF Head(s) \in S THEN <<Head(s)>> \o Filter(Tail(s), S)
    ELSE Filter(Tail(s), S)

list_of_set(S, hash_order) == Filter(hash_order, S)

(* ---------------- generate_profile: the context of the prompt ---------------- *)
\* commit_data["files_changed"][:40]
PathWindow == 40
\* file_paths[:20]
PathSample == 20

RECURSIVE SumOf(_, _)
SumOf(commits, field) ==
    IF commits = <<>> THEN 0 ELSE Head(commits)[field] + SumOf(Tail(commits), field)

\* f"{n / d:.0f}": the quotient rounded to the nearest integer, a half to
\* the even one
RoundHalfEven(n, d) ==
    LET q == n \div d
        r == n % d
    IN  IF 2 * r < d THEN q
        ELSE IF 2 * r > d THEN q + 1
        ELSE IF q % 2 = 0 THEN q ELSE q + 1

\* list(set(commit_data["files_changed"][:40])), in the iteration order of
\* the set
file_paths(commit_data, hash_order) ==
    list_of_set(Range(Take(commit_data.files_changed, PathWindow)), hash_order)

\* what the context of the prompt is built from (the commit records of the
\* model carry no message, so the message lines are left out)
select_evidence(username, commit_data, repo_name, hash_order) ==
    [username |-> username,
     repo_name |-> repo_name,
     total_commits |-> Len(commit_data.commits),
     avg_additions |-> RoundHalfEven(SumOf(commit_data.commits, "additions"),
                                     Len(commit_data.commits)),
     avg_deletions |-> RoundHalfEven(SumOf(commit_data.commits, "deletions"),
                                     Len(commit_data.commits)),
     top_languages |-> top_languages(commit_data),
     file_paths |-> Take(file_paths(commit_data, hash_order), PathSample)]

(* ---------------- analyze_repos: the merge ---------------- *)
\* list(existing_areas | new_areas)[:5], order the iteration order of the union
merged_areas_uncut(order) == order

merged_areas(order) == Take(order, MaxAreas)

\* the body of `if username in all_profiles`
MergedProfile_overwrite(existing, profile, order) ==
    [profile EXCEPT !.total_commits = existing.total_commits + @,
                    !.expertise_areas = merged_areas(order)]

MergedProfile_nosum(existing, profile, order) ==
    [existing EXCEPT !.expertise_areas = merged_areas(order)]

MergedProfile(existing, profile, order) ==
    [existing EXCEPT !.total_commits = @ + profile.total_commits,
                     !.expertise_areas = merged_areas(order)]

\* the loop body without the `if username in all_profiles` test
MergeOne_append(acc, profile, hash_order) ==
    [acc EXCEPT !.all = Append(acc.all, profile)]

\* one iteration of `for profile in profiles`; acc = [exc, all, log]: all
\* is the dict all_profiles as the sequence of its values in insertion
\* order, log the merges done
MergeOne(acc, profile, hash_order) ==
    LET all == acc.all
        username == profile.github_username
        at == {i \in 1..Len(all) : all[i].github_username = username}
    IN  IF at = {}
        THEN [acc EXCEPT !.all = Append(all, profile)]
        ELSE LET k == Min(at)
                 existing == all[k]
             IN  IF "expertise_areas" \notin DOMAIN existing
                    \/ "expertise_areas" \notin DOMAIN profile
                 THEN [acc EXCEPT !.exc = "KeyError"]
                 ELSE LET union == Range(existing.expertise_areas)
                                     \cup Range(profile.expertise_areas)
                          merged == MergedProfile(existing, profile,
                                                  list_of_set(union, hash_order))
                      IN  [exc |-> "none",
                           all |-> [all EXCEPT ![k] = merged],
                           log |-> Append(acc.log, [old |-> existing, new |-> profile,
                                                    res |-> merged])]

RECURSIVE MergeAll(_, _, _)
MergeAll(acc, profiles, hash_order) ==
    IF profiles = <<>> \/ acc.exc # "none" THEN acc
    ELSE MergeAll(MergeOne(acc, Head(profiles), hash_order), Tail(profiles), hash_order)

(* ---------------- the profile store ---------------- *)
FileAbsent == [state |-> "absent", profiles |-> <<>>]

\* save_profiles: the file holds the dumped list
Saved(profiles) == [state |-> "valid", profiles |-> profiles]

\* open(PROFILES_FILE, 'w'): the file exists and is empty until the dump
Truncated == [state |-> "empty", profiles |-> <<>>]

\* the text json.dump writes for a list of profiles, as tokens: the two
\* brackets and one item per profile
BracketOpen == [t |-> "[", v |-> <<>>]
BracketClose == [t |-> "]", v |-> <<>>]
Item(profile) == [t |-> "item", v |-> profile]

Dump(profiles) ==
    <<BracketOpen>> \o [i \in 1..Len(profiles) |-> Item(profiles[i])]
                    \o <<BracketClose>>

\* the text of the file
TextOf(file) ==
    IF file.state = "valid" THEN Dump(file.profiles)
    ELSE IF file.state = "corrupt" THEN file.text
    ELSE <<>>

\* the text is the dump of a list of profiles
IsDump(text) ==
    /\ Len(text) >= 2
    /\ text[1].t = "["
    /\ text[Len(text)].t = "]"
    /\ \A i \in 2..(Len(text) - 1) : text[i].t = "item"

\* the file that holds the text
FileOf(text) ==
    IF text = <<>> THEN Truncated
    ELSE IF IsDump(text) THEN Saved([i \in 1..(Len(text) - 2) |-> text[i + 1].v])
    ELSE [state |-> "corrupt", profiles |-> <<>>, text |-> text]

\* json.dump(profiles, f) and the close of a file opened with 'w': the text
\* is written from offset 0 over what the file holds by then; what lies
\* beyond the end of the written text stays (lengths are counted in
\* tokens: a dump of fewer profiles is the shorter text)
WriteOver(file, profiles) ==
    LET new == Dump(profiles)
        old == TextOf(file)
    IN  FileOf(new \o SubSeq(old, Len(new) + 1, Len(old)))

\* load_profiles: FileNotFoundError gives []; json.load raises
\* JSONDecodeError on a text that is not one JSON document
load_profiles(file) ==
    IF file.state = "absent" THEN Ok(<<>>)
    ELSE IF file.state = "valid" THEN Ok(file.profiles)
    ELSE Raise("JSONDecodeError")

(* ---------------- search_profiles ---------------- *)
\* the prompt asks for the top 3 matches
TopMatches == 3

NoResponse ==
    [endpoint |-> "none", status |-> 0, error |-> "none", items |-> <<>>,
     message |-> "", calls |-> 0, snapshot |-> <<>>]

\* one iteration of `for match in matches`; acc = [exc, val]
EnrichOne_keep(match, profiles, acc) ==
    IF match.jt # "object" THEN Raise("TypeError")
    ELSE IF "github_username" \notin DOMAIN match.val THEN Raise("KeyError")
    ELSE LET found == {i \in 1..Len(profiles) :
                         profiles[i].github_username = match.val.github_username}
         IN  IF found = {} THEN Ok(Append(acc.val, match.val))
             ELSE Ok(Append(acc.val, DictUpdate(profiles[Min(found)], match.val)))

EnrichOne_stored(match, profiles, acc) ==
    IF match.jt # "object" THEN Raise("TypeError")
    ELSE IF "github_username" \notin DOMAIN match.val THEN Raise("KeyError")
    ELSE LET found == {i \in 1..Len(profiles) :
                         profiles[i].github_username = match.val.github_username}
         IN  IF found = {} THEN acc
             ELSE Ok(Append(acc.val, DictUpdate(match.val, profiles[Min(found)])))

EnrichOne(match, profiles, acc) ==
    IF match.jt # "object" THEN Raise("TypeError")
    ELSE IF "github_username" \notin DOMAIN match.val THEN Raise("KeyError")
    ELSE LET found == {i \in 1..Len(profiles) :
                         profiles[i].github_username = match.val.github_username}
         IN  IF found = {} THEN acc
             ELSE Ok(Append(acc.val, DictUpdate(profiles[Min(found)], match.val)))

\* `for match in matches`: matches a parsed JSON array
RECURSIVE Enrich(_, _, _)
Enrich(matches, profiles, acc) ==
    IF matches = <<>> \/ acc.exc # "none" THEN acc
    ELSE Enrich(Tail(matches), profiles, EnrichOne(Head(matches), profiles, acc))

\* the try block after the call: parse, then enrich
SearchTry(profiles, outcome) ==
    LET parsed == call_and_parse(outcome)
    IN  IF parsed.exc # "none" THEN parsed
        ELSE IF parsed.val.jt = "array" THEN Enrich(parsed.val.val, profiles, Ok(<<>>))
        \* iterating a dict gives its keys, which are strings
        ELSE IF parsed.val.jt = "object"
             THEN IF DOMAIN parsed.val.val = {} THEN Ok(<<>>) ELSE Raise("TypeError")
        ELSE Raise("TypeError")

search_profiles_swallow(profiles, outcome) ==
    IF profiles = <<>>
    THEN [NoResponse EXCEPT !.endpoint = "search", !.status = 200,
                            !.message = "No profiles available. Analyze repositories first."]
    ELSE LET r == SearchTry(profiles, outcome)
         IN  IF r.exc = "none"
             THEN [NoResponse EXCEPT !.endpoint = "search", !.status = 200,
                                     !.items = r.val, !.calls = 1,
                                     !.snapshot = profiles]
             ELSE [NoResponse EXCEPT !.endpoint = "search", !.status = 200,
                                     !.calls = 1, !.snapshot = profiles]

search_profiles_eager(profiles, outcome) ==
    LET r == SearchTry(profiles, outcome)
    IN  IF r.exc = "none" /\ profiles # <<>>
        THEN [NoResponse EXCEPT !.endpoint = "search", !.status = 200,
                                !.items = r.val, !.calls = 1,
                                !.snapshot = profiles]
        ELSE IF profiles = <<>>
        THEN [NoResponse EXCEPT !.endpoint = "search", !.status = 200, !.calls = 1,
                  !.message = "No profiles available. Analyze repositories first."]
        ELSE [NoResponse EXCEPT !.endpoint = "search", !.status = 500,
                                !.error = r.exc, !.calls = 1,
                                !.snapshot = profiles]

\* the response of GET /search for the loaded profiles and the outcome the
\* service call would have
search_profiles(profiles, outcome) ==
    IF profiles = <<>>
    THEN [NoResponse EXCEPT !.endpoint = "search", !.status = 200,
                            !.message = "No profiles available. Analyze repositories first."]
    ELSE LET r == SearchTry(profiles, outcome)
         IN  IF r.exc = "none"
             THEN [NoResponse EXCEPT !.endpoint = "search", !.status = 200,
                                     !.items = r.val, !.calls = 1,
                                     !.snapshot = profiles]
             ELSE [NoResponse EXCEPT !.endpoint = "search", !.status = 500,
                                     !.error = r.exc, !.calls = 1,
                                     !.snapshot = profiles]

(* ---------------- the server as a state machine ---------------- *)
VARIABLES
    profiles_file,   \* profiles.json
    pc,              \* "idle", or "loop": inside `for repo_url in repos`
    repos,           \* urls of the request still to be analyzed
    all_profiles,    \* the dict of analyze_repos, values in insertion order
    response,        \* the response to the latest request
    last_source,     \* the latest analyze_repository call of the request: the
                     \* logins with enough commits, the logins the service was
                     \* called for, the profiles returned, the exception raised
    merge_log,       \* the merges done for the latest repository
    contrib,         \* the per-repository profiles taken so far in the request
    hash_order,      \* the order in which this process iterates a set of strings
    search_call,     \* what the reasoning service answered to the latest search
    peer,            \* a second worker process of the same app on the same
                     \* directory: its position, its all_profiles, its response
    save_log,        \* the lists given to save_profiles, in the order the
                     \* writes were completed
    activity,        \* the author_data entry an evidence bundle is selected from
    bundles,         \* the evidence bundles selected from activity so far
    interestList,    \* Express server: the in-memory interest list
    res,             \* Express server: the response to the latest request
    now,             \* Express server: the clock read by new Date()
    history,         \* the commits a repository returns to one aggregation
    author_data,     \* [done, data]: the author_data that aggregation built
    matchesLoading,  \* dashboard: the state of the same name
    matchResults,    \* dashboard: the state of the same name
    matchesError,    \* dashboard: the state of the same name
    matchAlert,      \* dashboard: the message of the state of the same name
    mount_effect,    \* dashboard: "pending" until the useEffect callback ran
    invocations,     \* dashboard: the calls of fetchSavedMatches and runMatch
                     \* so far, each "pending" at its await or "done"
    writes           \* dashboard: which invocation called setMatchResults,
                     \* in the order of the calls

vars == <<profiles_file, pc, repos, all_profiles, response, last_source,
          merge_log, contrib, hash_order, search_call, peer, save_log,
          activity, bundles, interestList, res, now, history, author_data,
          matchesLoading, matchResults, matchesError, matchAlert,
          mount_effect, invocations, writes>>

\* what the requests of the first worker leave alone
evidence_vars == <<activity, bundles>>
express_vars == <<interestList, res, now>>
aggregation_vars == <<history, author_data>>
react_vars == <<matchesLoading, matchResults, matchesError, matchAlert,
                mount_effect, invocations, writes>>
others == <<peer, evidence_vars, aggregation_vars, react_vars, express_vars>>

NoRes == [route |-> "none", status |-> 0, body |-> <<>>]

PeerIdle == [pc |-> "idle", all_profiles |-> <<>>, response |-> NoResponse]

NoActivity == NewEntry("nobody")

NoCall == [made |-> FALSE, outcome |-> ServiceError]

NoSource == [qualified |-> {}, calls |-> <<>>, profiles |-> <<>>, exc |-> "none"]

SeqsUpTo(S, n) == UNION {[1..k -> S] : k \in 0..n}

\* `not repo_url.strip()`
Blank(repo_url) == repo_url \in {"", " "}

\* analyze_repository before `author_data = {}`
NotGrouped == [done |-> FALSE, data |-> <<>>]

\* the servers start and the dashboard has rendered once: no profiles.json
\* yet, Tags the strings this process puts in sets, Activities the
\* author_data entries evidence is selected from, Histories the commit
\* lists a repository may return
StartWith(Tags, Activities, Histories) ==
    /\ hash_order \in Orders(Tags)
    /\ history \in Histories
    /\ author_data = NotGrouped
    /\ matchesLoading = FALSE
    /\ matchResults = <<>>
    /\ matchesError = ""
    /\ matchAlert = ""
    /\ mount_effect = "pending"
    /\ invocations = <<>>
    /\ writes = <<>>
    /\ peer = PeerIdle
    /\ save_log = <<>>
    /\ activity \in Activities
    /\ bundles = <<>>
    /\ interestList = <<>>
    /\ res = NoRes
    /\ now = 0
    /\ profiles_file = FileAbsent
    /\ pc = "idle"
    /\ repos = <<>>
    /\ all_profiles = <<>>
    /\ response = NoResponse
    /\ last_source = NoSource
    /\ merge_log = <<>>
    /\ contrib = <<>>
    /\ search_call = NoCall

StartOn(Tags, Activities) == StartWith(Tags, Activities, {<<>>})

Start(Tags) == StartOn(Tags, {NoActivity})

\* POST /analyze arrives with a list of urls
AnalyzeStart(Urls) ==
    /\ pc = "idle"
    /\ \E rs \in SeqsUpTo(Urls, MaxRepos) : repos' = rs
    /\ pc' = "loop"
    /\ all_profiles' = <<>>
    /\ response' = NoResponse
    /\ last_source' = NoSource
    /\ merge_log' = <<>>
    /\ contrib' = <<>>
    /\ search_call' = NoCall
    /\ UNCHANGED <<profiles_file, hash_order, save_log, others>>

\* `if not repo_url.strip(): continue`
SkipBlank ==
    /\ pc = "loop"
    /\ repos # <<>>
    /\ Blank(Head(repos))
    /\ repos' = Tail(repos)
    /\ UNCHANGED <<profiles_file, pc, all_profiles, response, last_source,
                   merge_log, contrib, hash_order, search_call, save_log, others>>

\* the request ends with an error response; nothing is saved
Abort_partial(status, exc, src) ==
    /\ pc' = "idle"
    /\ repos' = <<>>
    /\ all_profiles' = <<>>
    /\ response' = [NoResponse EXCEPT !.endpoint = "analyze", !.status = status,
                                      !.error = exc]
    /\ last_source' = src
    /\ merge_log' = <<>>
    /\ contrib' = <<>>
    /\ search_call' = NoCall
    /\ profiles_file' = WriteOver(Truncated, all_profiles)
    /\ save_log' = Append(save_log, all_profiles)
    /\ UNCHANGED <<hash_order, others>>

Abort(status, exc, src) ==
    /\ pc' = "idle"
    /\ repos' = <<>>
    /\ all_profiles' = <<>>
    /\ response' = [NoResponse EXCEPT !.endpoint = "analyze", !.status = status,
                                      !.error = exc]
    /\ last_source' = src
    /\ merge_log' = <<>>
    /\ contrib' = <<>>
    /\ search_call' = NoCall
    /\ UNCHANGED <<profiles_file, hash_order, save_log, others>>

\* one iteration of `for repo_url in repos`: analyze_repository, then the
\* merge of its profiles into all_profiles
AnalyzeRepo(CommitSeqs, Outcomes) ==
    /\ pc = "loop"
    /\ repos # <<>>
    /\ ~Blank(Head(repos))
    /\ \E fetch \in {FetchFailed} \cup {Fetched(c) : c \in CommitSeqs} :
       \E data \in {Aggregate(<<>>, Take(fetch.commits, CommitLimit))} :
       \E outs \in [Qualifying(data) -> Outcomes] :
       \E r \in {analyze_repository(Head(repos), fetch, outs)} :
       \E src \in {[qualified |-> Qualifying(r.data), calls |-> r.calls,
                    profiles |-> r.val, exc |-> r.exc]} :
          IF r.exc # "none"
          THEN Abort(400, r.exc, src)
          ELSE \E m \in {MergeAll([exc |-> "none", all |-> all_profiles,
                                   log |-> <<>>], r.val, hash_order)} :
                 IF m.exc # "none"
                 THEN Abort(500, m.exc, src)
                 ELSE /\ all_profiles' = m.all
                      /\ merge_log' = m.log
                      /\ contrib' = contrib \o r.val
                      /\ last_source' = src
                      /\ repos' = Tail(repos)
                      /\ UNCHANGED <<profiles_file, pc, response, hash_order,
                                   search_call, save_log, others>>

\* after the loop: save_profiles and the success response, when no other
\* process touches profiles.json between the open and the close
Save ==
    /\ pc = "loop"
    /\ repos = <<>>
    /\ profiles_file' = WriteOver(Truncated, all_profiles)
    /\ save_log' = Append(save_log, all_profiles)
    /\ response' = [NoResponse EXCEPT !.endpoint = "analyze", !.status = 200,
                                      !.items = all_profiles]
    /\ pc' = "idle"
    /\ all_profiles' = <<>>
    /\ last_source' = NoSource
    /\ merge_log' = <<>>
    /\ contrib' = <<>>
    /\ UNCHANGED <<repos, hash_order, search_call, others>>

\* the response of GET /profiles; an exception that leaves the handler is
\* answered with 500
get_profiles(file) ==
    LET loaded == load_profiles(file)
    IN  IF loaded.exc # "none"
        THEN [NoResponse EXCEPT !.endpoint = "profiles", !.status = 500,
                                !.error = loaded.exc]
        ELSE [NoResponse EXCEPT !.endpoint = "profiles", !.status = 200,
                                !.items = loaded.val]

\* GET /profiles
GetProfiles ==
    /\ pc = "idle"
    /\ response' = get_profiles(profiles_file)
    /\ search_call' = NoCall
    /\ UNCHANGED <<profiles_file, pc, repos, all_profiles, last_source,
                   merge_log, contrib, hash_order, save_log, others>>

\* GET /search; the handlers are coroutines that never await, so a request
\* is served from start to end before the next one is taken
Search(Outcomes) ==
    /\ pc = "idle"
    /\ \E o \in Outcomes :
       \E loaded \in {load_profiles(profiles_file)} :
         /\ response' = IF loaded.exc # "none"
                        THEN [NoResponse EXCEPT !.endpoint = "search",
                                                !.status = 500,
                                                !.error = loaded.exc]
                        ELSE search_profiles(loaded.val, o)
         /\ search_call' = [made |-> response'.calls > 0, outcome |-> o]
    /\ UNCHANGED <<profiles_file, pc, repos, all_profiles, last_source,
                   merge_log, contrib, hash_order, save_log, others>>

(* ---------------- inputs ---------------- *)
\* a commit as the record source returns it; author None: commit.author
\* is missing
CommitBy(a) ==
    [author |-> a, additions |-> 1, deletions |-> 0, files_ok |-> TRUE,
     files |-> IF a = "alice" THEN <<MainPy>>
               ELSE IF a = "bob" THEN <<IndexJs>> ELSE <<Readme>>]

Without(f, k) == [x \in (DOMAIN f) \ {k} |-> f[x]]

\* a response object with the six fields asked for by the prompt
FullObject(areas, v) ==
    [expertise_areas |-> areas,
     frameworks |-> <<"fw" \o v>>,
     work_style |-> "style" \o v,
     commit_pattern |-> "pattern" \o v,
     ai_summary |-> "summary" \o v,
     best_for |-> <<"best" \o v>>]

AsText(j) == ServiceText(<<JsonText(j)>>)

\* the service returns the value inside ```json ... ```
Fenced(j) == ServiceText(<<Fence, Tag, JsonText(j), Fence>>)

Urls == {"", "u1"}

Commits == {CommitBy(a) : a \in Users \cup {None}}

CommitSeqs == SeqsUpTo(Commits, MaxCommits)

SynthesisOutcomes ==
    {ServiceError, ServiceTimeout,
     ServiceText(<<>>), ServiceText(<<Prose>>),
     AsText(JArray(<<>>)),
     AsText(JObject(FullObject(<<"API design">>, "1"))),
     AsText(JObject(Without(FullObject(<<"API design">>, "1"), "expertise_areas"))),
     AsText(JObject(DictUpdate(FullObject(<<"API design">>, "1"),
                               [github_username |-> "bob"])))}

Match(u) ==
    JObject([github_username |-> u, relevance_score |-> 95,
             match_reason |-> "matches the query"])

SearchOutcomes ==
    {ServiceError, ServiceTimeout,
     ServiceText(<<>>), ServiceText(<<Prose>>),
     ServiceText(<<Prose, Fence, Tag, JsonText(JArray(<<Match("alice")>>)), Fence>>),
     AsText(JArray(<<>>)),
     AsText(JArray(<<Match("alice")>>)),
     AsText(JArray(<<Match("alice"), Match("carol")>>)),
     AsText(JArray(<<JObject(DictUpdate(Match("alice").val,
                                        [ai_summary |-> "as the service sees it",
                                         total_commits |-> 0]))>>)),
     AsText(JArray(<<Match("carol"), Match("bob")>>)),
     AsText(JArray(<<Match("alice"), Match("bob"), Match("alice"), Match("bob")>>)),
     Fenced(JArray(<<Match("bob"), Match("alice")>>)),
     AsText(JArray(<<Match("alice"), JNumber(1)>>)),
     AsText(JArray(<<JObject([relevance_score |-> 95])>>)),
     AsText(JObject(<<>>)),
     AsText(JObject([matches |-> <<>>])),
     AsText(JNumber(3))}

\* analyze_repos never reads profiles.json, so a request behaves the same
\* whatever is stored: the specifications follow the first analyze request
\* of the process and the reads after it
FirstAnalyze(Us) == profiles_file = FileAbsent /\ AnalyzeStart(Us)

SynthesisTags == {"Code contribution", "API design"}

Init == Start(SynthesisTags)

Next ==
    \/ FirstAnalyze(Urls)
    \/ SkipBlank
    \/ AnalyzeRepo(CommitSeqs, SynthesisOutcomes)
    \/ Save
    \/ GetProfiles

Spec == Init /\ [][Next]_vars

(* ---------------- merge of one developer across repositories ---------------- *)
\* one developer with enough commits in every repository, and the service
\* answering with different expertise lists
MergeCommitSeqs ==
    {<<CommitBy("bob"), CommitBy("bob")>>,
     <<CommitBy("bob"), CommitBy("bob"), CommitBy("bob")>>}

MergeTags == {"A", "B", "C", "D", "E", "F"}

MergeOutcomes ==
    {AsText(JObject(FullObject(<<"A", "B">>, "1"))),
     AsText(JObject(FullObject(<<"B", "C">>, "2"))),
     AsText(JObject(FullObject(<<"A", "B", "C", "D", "E", "F", "A">>, "3")))}

InitMerge == Start(MergeTags)

NextMerge ==
    \/ FirstAnalyze({"u1"})
    \/ AnalyzeRepo(MergeCommitSeqs, MergeOutcomes)
    \/ Save

SpecMerge == InitMerge /\ [][NextMerge]_vars

(* ---------------- free-text search over the stored profiles ---------------- *)
StoreOutcomes == {ServiceError, AsText(JObject(FullObject(<<"API design">>, "1")))}

NextSearch ==
    \/ FirstAnalyze(Urls)
    \/ SkipBlank
    \/ AnalyzeRepo(CommitSeqs, StoreOutcomes)
    \/ Save
    \/ GetProfiles
    \/ Search(SearchOutcomes)

SpecSearch == Init /\ [][NextSearch]_vars

(* ---------------- two workers on one profiles.json ---------------- *)
\* The app keeps nothing but profiles.json between requests, and
\* save_profiles is an open for writing followed by a dump. A worker serves
\* its own requests one at a time; a second worker process started on the
\* same directory serves its requests in between the steps of the first.

\* number of POST /analyze requests the two workers take together
MaxRuns == 2

RunsStarted ==
    Len(save_log) + (IF pc # "idle" THEN 1 ELSE 0)
                  + (IF peer.pc # "idle" THEN 1 ELSE 0)

WorkerAnalyze(Us) == RunsStarted < MaxRuns /\ AnalyzeStart(Us)

\* save_profiles, `with open(PROFILES_FILE, 'w') as f`: the file is
\* created or cut to length 0
SaveOpen ==
    /\ pc = "loop"
    /\ repos = <<>>
    /\ profiles_file' = Truncated
    /\ pc' = "save"
    /\ UNCHANGED <<repos, all_profiles, response, last_source, merge_log,
                   contrib, hash_order, search_call, save_log, others>>

\* save_profiles, json.dump and the end of the with block, then the
\* success response
SaveDump ==
    /\ pc = "save"
    /\ profiles_file' = WriteOver(profiles_file, all_profiles)
    /\ save_log' = Append(save_log, all_profiles)
    /\ response' = [NoResponse EXCEPT !.endpoint = "analyze", !.status = 200,
                                      !.items = all_profiles]
    /\ pc' = "idle"
    /\ all_profiles' = <<>>
    /\ last_source' = NoSource
    /\ merge_log' = <<>>
    /\ contrib' = <<>>
    /\ UNCHANGED <<repos, hash_order, search_call, others>>

peer_frame == <<profiles_file, pc, repos, all_profiles, response, last_source,
                merge_log, contrib, hash_order, search_call, evidence_vars,
                aggregation_vars, react_vars, express_vars>>

\* the second worker takes POST /analyze with one url and runs the loop up
\* to save_profiles
PeerAnalyze(Seqs, Answers) ==
    /\ peer.pc = "idle"
    /\ RunsStarted < MaxRuns
    /\ \E fetch \in {FetchFailed} \cup {Fetched(c) : c \in Seqs} :
       \E data \in {Aggregate(<<>>, Take(fetch.commits, CommitLimit))} :
       \E outs \in [Qualifying(data) -> Answers] :
       \E r \in {analyze_repository("u1", fetch, outs)} :
       \E m \in {MergeAll([exc |-> "none", all |-> <<>>, log |-> <<>>],
                          r.val, hash_order)} :
          peer' = IF r.exc # "none" \/ m.exc # "none"
                  THEN [PeerIdle EXCEPT !.response =
                           [NoResponse EXCEPT !.endpoint = "analyze",
                                              !.status = IF r.exc # "none"
                                                         THEN 400 ELSE 500,
                                              !.error = IF r.exc # "none"
                                                        THEN r.exc ELSE m.exc]]
                  ELSE [pc |-> "loop", all_profiles |-> m.all,
                        response |-> NoResponse]
    /\ UNCHANGED <<peer_frame, save_log>>

PeerSaveOpen ==
    /\ peer.pc = "loop"
    /\ profiles_file' = Truncated
    /\ peer' = [peer EXCEPT !.pc = "save"]
    /\ UNCHANGED <<pc, repos, all_profiles, response, last_source, merge_log,
                   contrib, hash_order, search_call, save_log, evidence_vars,
                   aggregation_vars, react_vars, express_vars>>

PeerSaveDump ==
    /\ peer.pc = "save"
    /\ profiles_file' = WriteOver(profiles_file, peer.all_profiles)
    /\ save_log' = Append(save_log, peer.all_profiles)
    /\ peer' = [PeerIdle EXCEPT !.response =
                   [NoResponse EXCEPT !.endpoint = "analyze", !.status = 200,
                                      !.items = peer.all_profiles]]
    /\ UNCHANGED <<pc, repos, all_profiles, response, last_source, merge_log,
                   contrib, hash_order, search_call, evidence_vars,
                   aggregation_vars, react_vars, express_vars>>

\* the second worker takes GET /profiles
PeerGetProfiles ==
    /\ peer.pc = "idle"
    /\ peer' = [peer EXCEPT !.response = get_profiles(profiles_file)]
    /\ UNCHANGED <<peer_frame, save_log>>

WorkerCommitSeqs ==
    {<<CommitBy("alice")>>,
     <<CommitBy("alice"), CommitBy("alice")>>,
     <<CommitBy("bob"), CommitBy("bob")>>}

\* the service is down: every profile is the fallback profile
WorkerOutcomes == {ServiceError}

InitWorkers == Start({"Code contribution"})

NextWorkers ==
    \/ WorkerAnalyze({"u1"})
    \/ AnalyzeRepo(WorkerCommitSeqs, WorkerOutcomes)
    \/ SaveOpen
    \/ SaveDump
    \/ GetProfiles
    \/ PeerAnalyze(WorkerCommitSeqs, WorkerOutcomes)
    \/ PeerSaveOpen
    \/ PeerSaveDump
    \/ PeerGetProfiles

SpecWorkers == InitWorkers /\ [][NextWorkers]_vars

(* ---------------- one worker, request after request ---------------- *)
NextRuns ==
    \/ WorkerAnalyze({"u1"})
    \/ AnalyzeRepo(WorkerCommitSeqs, WorkerOutcomes)
    \/ Save
    \/ GetProfiles

SpecRuns == InitWorkers /\ [][NextRuns]_vars

(* ---------------- generate_profile on one author's activity ---------------- *)
\* number of generate_profile calls made on the activity
MaxCalls == 2

\* number of blocks of equal commits in a fetched history
MaxBlocks == 2

\* generate_profile(username, data, repo.name) for the activity: the
\* evidence put in the prompt, the answer of the service, the result
GenerateProfile(Outcomes) ==
    /\ pc = "idle"
    /\ Len(bundles) < MaxCalls
    /\ \E o \in Outcomes :
       \E r \in {generate_profile(activity.login, activity, RepoName("u1"), o)} :
          bundles' = Append(bundles,
                        [evidence |-> select_evidence(activity.login, activity,
                                                      RepoName("u1"), hash_order),
                         outcome |-> o,
                         exc |-> r.exc,
                         profile |-> r.val])
    /\ UNCHANGED <<profiles_file, pc, repos, all_profiles, response, last_source,
                   merge_log, contrib, hash_order, search_call, peer, save_log,
                   activity, aggregation_vars, react_vars, express_vars>>

\* the server process is started again (uvicorn --reload, a deploy): the
\* hashes of strings are seeded anew, what was in memory is gone,
\* profiles.json stays
Restart ==
    /\ hash_order' \in Orders(Range(hash_order))
    /\ pc' = "idle"
    /\ repos' = <<>>
    /\ all_profiles' = <<>>
    /\ response' = NoResponse
    /\ last_source' = NoSource
    /\ merge_log' = <<>>
    /\ contrib' = <<>>
    /\ search_call' = NoCall
    /\ UNCHANGED <<profiles_file, peer, save_log, evidence_vars,
                   aggregation_vars, react_vars, express_vars>>

\* the author_data entries analyze_repository hands to generate_profile
\* for the fetched histories
ActivitiesOf(Histories) ==
    UNION {LET data == Aggregate(<<>>, Take(h, CommitLimit))
           IN  {data[i] : i \in {j \in 1..Len(data) :
                                    Len(data[j].commits) >= MinCommits}}
           : h \in Histories}

CommitOn(a, files) == [CommitBy(a) EXCEPT !.files = files]

\* commit.files raises for this commit
CommitNoFiles(a) == [CommitBy(a) EXCEPT !.files_ok = FALSE]

SrcMainPy == <<"s", "r", "c", "/", "m", "a", "i", "n", ".", "p", "y">>
AppIndexJs == <<"a", "p", "p", "/", "i", "n", "d", "e", "x", ".", "j", "s">>
ApiTs == <<"a", "p", "i", ".", "t", "s">>
CmdGo == <<"c", "m", "d", ".", "g", "o">>

(* the service is down or answers: the fallback profile *)
FallbackPaths == {SrcMainPy, AppIndexJs, ApiTs, CmdGo}

FallbackCommits ==
    {CommitOn("alice", <<SrcMainPy>>),
     CommitOn("alice", <<AppIndexJs>>),
     CommitOn("alice", <<CmdGo, ApiTs, AppIndexJs, SrcMainPy>>),
     CommitOn("bob", <<CmdGo, ApiTs>>),
     CommitNoFiles("alice")}

FallbackOutcomes ==
    {ServiceError, ServiceTimeout,
     AsText(JObject(FullObject(<<"API design">>, "1")))}

InitFallback ==
    StartOn(FallbackPaths, ActivitiesOf(SeqsUpTo(FallbackCommits, MaxCommits)))

NextFallback == GenerateProfile(FallbackOutcomes)

SpecFallback == InitFallback /\ [][NextFallback]_vars

(* the evidence selected from long histories, before and after a restart *)
EvidencePaths == {SrcMainPy, AppIndexJs, Readme}

Repeat(x, n) == [i \in 1..n |-> x]

\* histories made of up to k blocks of 1 or PathWindow equal commits
RECURSIVE BlockSeqs(_)
BlockSeqs(k) ==
    IF k = 0 THEN {<<>>}
    ELSE BlockSeqs(k - 1) \cup
         {h \o Repeat(CommitOn("alice", <<f>>), n) :
            h \in BlockSeqs(k - 1), f \in EvidencePaths, n \in {1, PathWindow}}

EvidenceOutcomes == {ServiceError}

InitEvidence == StartOn(EvidencePaths, ActivitiesOf(BlockSeqs(MaxBlocks)))

NextEvidence ==
    \/ GenerateProfile(EvidenceOutcomes)
    \/ Restart

SpecEvidence == InitEvidence /\ [][NextEvidence]_vars

(* ---------------- analyze_repository on one fetched history ---------------- *)
\* a commit whose commit.files raises; its stats differ from the others'
CommitLost(a) ==
    [CommitNoFiles(a) EXCEPT !.additions = 5, !.deletions = 3]

AggregateCommits ==
    {CommitBy(a) : a \in Users \cup {None}} \cup {CommitLost(a) : a \in Users}

AggregateHistories == SeqsUpTo(AggregateCommits, MaxCommits)

\* author_data[login]
Entry(data, login) == data[CHOOSE i \in 1..Len(data) : data[i].login = login]

AggregateOutcomes ==
    {ServiceError, ServiceText(<<Prose>>),
     AsText(JObject(FullObject(<<"API design">>, "1")))}

\* analyze_repository(repo_url) for a repository whose get_commits returns
\* history: the grouping loop, then the profiles of the logins with
\* enough commits
AnalyzeRepository(Outcomes) ==
    /\ pc = "idle"
    /\ ~author_data.done
    /\ \E data \in {Aggregate(<<>>, Take(history, CommitLimit))} :
       \E outs \in [Qualifying(data) -> Outcomes] :
       \E r \in {analyze_repository("u1", Fetched(history), outs)} :
          /\ author_data' = [done |-> TRUE, data |-> r.data]
          /\ last_source' = [qualified |-> Qualifying(r.data), calls |-> r.calls,
                             profiles |-> r.val, exc |-> r.exc]
          /\ bundles' = [i \in 1..Len(r.val) |->
                            [evidence |-> select_evidence(r.calls[i],
                                              Entry(r.data, r.calls[i]),
                                              RepoName("u1"), hash_order),
                             outcome |-> outs[r.calls[i]],
                             exc |-> "none",
                             profile |-> r.val[i]]]
    /\ UNCHANGED <<profiles_file, pc, repos, all_profiles, response, merge_log,
                   contrib, hash_order, search_call, save_log, history, peer,
                   activity, react_vars, express_vars>>

InitAggregate == StartWith(SynthesisTags, {NoActivity}, AggregateHistories)

NextAggregate == AnalyzeRepository(AggregateOutcomes)

SpecAggregate == InitAggregate /\ [][NextAggregate]_vars

(* ---------------- responses wrapped in ``` fences ---------------- *)
\* the service returns the value inside ``` ... ```, with the language tag
\* or without, after a sentence of its own or at the start of the text
Wrapped(j, tagged, lead) ==
    ServiceText((IF lead THEN <<Prose>> ELSE <<>>)
                \o <<Fence>>
                \o (IF tagged THEN <<Tag>> ELSE <<>>)
                \o <<JsonText(j), Fence>>)

Wrappings(j) == {Wrapped(j, tagged, lead) : tagged \in BOOLEAN, lead \in BOOLEAN}

RepairProfiles ==
    {AsText(JObject(FullObject(<<"API design">>, "1")))}
        \cup Wrappings(JObject(FullObject(<<"API design">>, "1")))

RepairMatches ==
    Wrappings(JArray(<<Match("alice")>>))
        \cup Wrappings(JArray(<<Match("bob"), Match("carol"), Match("alice")>>))

RepairHistories ==
    {<<CommitBy("alice"), CommitBy("alice")>>,
     <<CommitBy("bob"), CommitBy("bob"), CommitBy("bob")>>}

InitRepair == StartOn(SynthesisTags, ActivitiesOf(RepairHistories))

NextRepair ==
    \/ GenerateProfile(RepairProfiles)
    \/ FirstAnalyze({"u1"})
    \/ AnalyzeRepo(WorkerCommitSeqs, WorkerOutcomes)
    \/ Save
    \/ Search(RepairMatches)

SpecRepair == InitRepair /\ [][NextRepair]_vars

(* ---------------- the Express server (server.js) ---------------- *)
\* number of entries the interest list takes
MaxInterest == 2

\* number of ticks of the clock
MaxClock == 2

programInfo ==
    [name |-> "Penn × Anthropic Emp Matching Initiative",
     nextEvent |-> "Kickoff fireside chat with Anthropic mentors",
     date |-> "2025-02-05T23:30:00.000Z",
     location |-> "Tannenbaum Hall, Room 120"]

\* a request body after express.json() is the record of the fields it
\* carries; a field that is missing reads as undefined.
\* !v for a string or undefined
Falsy(body, k) == k \notin DOMAIN body \/ body[k] = ""

express_frame == <<profiles_file, pc, repos, all_profiles, response, last_source,
                   merge_log, contrib, hash_order, search_call, peer, save_log,
                   evidence_vars, aggregation_vars, react_vars>>

\* app.get('/api/hello')
GetHello_counts ==
    /\ res' = [route |-> "hello", status |-> 200,
               body |-> [message |-> "Hello world from the Penn × Anthropic backend"]]
    /\ interestList' = IF Len(interestList) < MaxInterest
                       THEN Append(interestList,
                                   [name |-> "hello", email |-> "",
                                    focus |-> "general", timestamp |-> now])
                       ELSE interestList
    /\ UNCHANGED <<now, express_frame>>

GetHello ==
    /\ res' = [route |-> "hello", status |-> 200,
               body |-> [message |-> "Hello world from the Penn × Anthropic backend"]]
    /\ UNCHANGED <<interestList, now, express_frame>>

\* app.get('/api/program')
GetProgram ==
    /\ res' = [route |-> "program", status |-> 200,
               body |-> DictUpdate(programInfo,
                                   [totalInterest |-> Len(interestList)])]
    /\ UNCHANGED <<interestList, now, express_frame>>

\* app.post('/api/interest'); a body that is not JSON is answered 400 by
\* express.json() before the handler runs
PostInterest_eager(Bodies) ==
    /\ Len(interestList) < MaxInterest
    /\ \E body \in Bodies :
       \E entry \in {[name |-> IF Falsy(body, "name") THEN "" ELSE body.name,
                       email |-> IF Falsy(body, "email") THEN "" ELSE body.email,
                       focus |-> IF Falsy(body, "focus") THEN "general"
                                 ELSE body.focus,
                       timestamp |-> now]} :
          /\ interestList' = Append(interestList, entry)
          /\ res' = IF Falsy(body, "name") \/ Falsy(body, "email")
                    THEN [route |-> "interest", status |-> 400,
                          body |-> [error |-> "name and email are required"]]
                    ELSE [route |-> "interest", status |-> 201,
                          body |-> [message |-> "Added to interest list",
                                    entry |-> entry]]
    /\ UNCHANGED <<now, express_frame>>

PostInterest(Bodies) ==
    /\ \E body \in Bodies \cup {[malformed |-> "yes"]} :
         IF "malformed" \in DOMAIN body
         THEN /\ res' = [route |-> "interest", status |-> 400,
                         body |-> [error |-> "Bad Request"]]
              /\ UNCHANGED interestList
         ELSE IF Falsy(body, "name") \/ Falsy(body, "email")
         THEN /\ res' = [route |-> "interest", status |-> 400,
                         body |-> [error |-> "name and email are required"]]
              /\ UNCHANGED interestList
         ELSE /\ Len(interestList) < MaxInterest
              /\ \E entry \in {[name |-> body.name,
                                email |-> body.email,
                                focus |-> IF Falsy(body, "focus") THEN "general"
                                          ELSE body.focus,
                                timestamp |-> now]} :
                   /\ interestList' = Append(interestList, entry)
                   /\ res' = [route |-> "interest", status |-> 201,
                              body |-> [message |-> "Added to interest list",
                                        entry |-> entry]]
    /\ UNCHANGED <<now, express_frame>>

\* app.get('/api/interest')
GetInterest ==
    /\ res' = [route |-> "interest_list", status |-> 200,
               body |-> [entries |-> interestList]]
    /\ UNCHANGED <<interestList, now, express_frame>>

\* time passes between requests
Tick ==
    /\ now < MaxClock
    /\ now' = now + 1
    /\ UNCHANGED <<interestList, res, express_frame>>

\* the bodies a client posts: each of name, email, focus missing, empty or
\* filled in
Bodies ==
    UNION {[D -> {"", "Ada"}] : D \in SUBSET {"name", "email", "focus"}}

InitExpress == Start({"Code contribution"})

NextExpress ==
    \/ GetHello
    \/ GetProgram
    \/ PostInterest(Bodies)
    \/ GetInterest
    \/ Tick

SpecExpress == InitExpress /\ [][NextExpress]_vars

(* ---------------- the React dashboard (App.js): the match panel ---------------- *)
\* number of calls of fetchSavedMatches and runMatch the model follows
MaxInvocations == 3

\* what fetch resolves to and what the body holds: an object (the record
\* of its fields), the text null, or text that is not JSON
Response(status, body) == [status |-> status, body |-> body]
JsonBody(fields) == [kind |-> "object", fields |-> fields]
NullBody == [kind |-> "null", fields |-> <<>>]
NotJson == [kind |-> "text", fields |-> <<>>]

NetworkFailure == Response(0, NotJson)

\* the matches the backend has when it serves the request of fn
MatchesOf(fn) == IF fn = "runMatch" THEN <<"fresh match">> ELSE <<"saved match">>

Responses(fn) ==
    {Response(200, JsonBody([matches |-> MatchesOf(fn)])),
     Response(200, NotJson),
     Response(200, NullBody),
     Response(404, JsonBody([detail |-> "No saved matches found"])),
     Response(500, JsonBody([detail |-> "Internal Server Error"]))}

\* a response whose body has been read
Consumed(r) == Response(r.status, NotJson)

\* response.ok
ResponseOk(r) == r.status >= 200 /\ r.status <= 299

\* the state updates of a run of the function body from the point
\* reached to the end of the try statement; the finally block follows
NoUpdate ==
    [setResults |-> FALSE, results |-> <<>>, setError |-> FALSE, error |-> "",
     setAlert |-> FALSE, alert |-> ""]

\* the catch block of fetchSavedMatches / of runMatch
Caught(fn, message) ==
    [NoUpdate EXCEPT !.setError = TRUE, !.error = message,
                     !.setResults = (fn = "fetchSavedMatches"),
                     !.setAlert = TRUE, !.alert = ""]

\* a || b for a field of data that may be missing
OrElse(fields, k, default) ==
    IF k \in DOMAIN fields THEN fields[k] ELSE default

\* fetchSavedMatches from `const data = await response.json().catch(...)`
\* on; a body that is not JSON reads as {}, reading a field of null throws
fetchSavedMatches_rest(inv) ==
    LET r == inv.response
        fields == IF r.body.kind = "object" THEN r.body.fields ELSE <<>>
    IN  IF ~ResponseOk(r)
        THEN IF r.status = 404
             THEN [NoUpdate EXCEPT !.setResults = TRUE,
                      !.setAlert = inv.showMessage,
                      !.alert = "No saved matches yet. Run the matcher to generate recommendations."]
             ELSE IF r.body.kind = "null"
             THEN Caught(inv.fn, "Cannot read properties of null")
             ELSE Caught(inv.fn, OrElse(fields, "detail", "Unable to load saved matches"))
        ELSE IF r.body.kind = "null"
        THEN Caught(inv.fn, "Cannot read properties of null")
        ELSE [NoUpdate EXCEPT !.setResults = TRUE,
                 !.results = OrElse(fields, "matches", <<>>),
                 !.setAlert = inv.showMessage,
                 !.alert = "Loaded latest saved matches."]

\* runMatch from `const data = await response.json().catch(...)` on
runMatch_rest(inv) ==
    LET r == inv.response
        fields == IF r.body.kind = "object" THEN r.body.fields ELSE <<>>
    IN  IF r.body.kind = "null"
        THEN Caught(inv.fn, "Cannot read properties of null")
        ELSE IF ~ResponseOk(r)
        THEN Caught(inv.fn, OrElse(fields, "detail", "Unable to generate matches"))
        ELSE [NoUpdate EXCEPT !.setResults = TRUE,
                 !.results = OrElse(fields, "matches", <<>>),
                 !.setAlert = TRUE,
                 !.alert = "Demo recommendations refreshed."]

dashboard_frame == <<profiles_file, pc, repos, all_profiles, response, last_source,
                     merge_log, contrib, hash_order, search_call, peer, save_log,
                     evidence_vars, aggregation_vars, express_vars>>

\* the first statements of fetchSavedMatches(showMessage) and of runMatch(),
\* up to the await of fetch
Call(fn, showMessage) ==
    /\ Len(invocations) < MaxInvocations
    /\ matchesLoading' = TRUE
    /\ matchesError' = ""
    /\ matchAlert' = IF fn = "runMatch"
                     THEN "Contacting backend for fresh recommendations..."
                     ELSE IF showMessage THEN "Refreshing saved results..."
                     ELSE matchAlert
    /\ invocations' = Append(invocations,
                         [fn |-> fn, showMessage |-> showMessage, at |-> "fetch",
                          response |-> NetworkFailure])
    /\ UNCHANGED <<matchResults, writes, dashboard_frame>>

\* the callback of useEffect(..., []), run once after the first render
MountEffect ==
    /\ mount_effect = "pending"
    /\ mount_effect' = "ran"
    /\ Call("fetchSavedMatches", FALSE)

\* a click on `Reload saved matches` or on the refresh button of the match
\* panel; a button rendered with disabled={matchesLoading} takes no click
ClickReload ==
    /\ ~matchesLoading
    /\ Call("fetchSavedMatches", TRUE)
    /\ UNCHANGED mount_effect

\* a click on `Run match with Claude`
ClickRun ==
    /\ ~matchesLoading
    /\ Call("runMatch", FALSE)
    /\ UNCHANGED mount_effect

\* invocation i runs from its await to its end: the updates u of the try
\* or catch block, then the finally block
Finish_return(i, r, u) ==
    /\ invocations' = [invocations EXCEPT ![i].at = "done",
                                          ![i].response = Consumed(r)]
    /\ matchResults' = IF u.setResults THEN u.results ELSE matchResults
    /\ writes' = IF u.setResults THEN Append(writes, i) ELSE writes
    /\ matchesError' = IF u.setError THEN u.error ELSE matchesError
    /\ matchAlert' = IF u.setAlert THEN u.alert ELSE matchAlert
    /\ matchesLoading' = IF r.status = 404 THEN matchesLoading ELSE FALSE
    /\ UNCHANGED <<mount_effect, dashboard_frame>>

Finish(i, r, u) ==
    /\ invocations' = [invocations EXCEPT ![i].at = "done",
                                          ![i].response = Consumed(r)]
    /\ matchResults' = IF u.setResults THEN u.results ELSE matchResults
    /\ writes' = IF u.setResults THEN Append(writes, i) ELSE writes
    /\ matchesError' = IF u.setError THEN u.error ELSE matchesError
    /\ matchAlert' = IF u.setAlert THEN u.alert ELSE matchAlert
    /\ matchesLoading' = FALSE
    /\ UNCHANGED <<mount_effect, dashboard_frame>>

\* `await fetch(...)` of invocation i settles: the promise is rejected
\* (the catch block runs) or resolves to a response
FetchSettles(i) ==
    /\ i <= Len(invocations)
    /\ invocations[i].at = "fetch"
    /\ \E r \in Responses(invocations[i].fn) \cup {NetworkFailure} :
          IF r = NetworkFailure
          THEN Finish(i, r, Caught(invocations[i].fn, "Failed to fetch"))
          ELSE /\ invocations' = [invocations EXCEPT ![i].at = "json",
                                                     ![i].response = r]
               /\ UNCHANGED <<matchesLoading, matchResults, matchesError,
                              matchAlert, mount_effect, writes, dashboard_frame>>

\* `await response.json().catch(() => ({}))` of invocation i settles and
\* the function runs to its end
BodyRead(i) ==
    /\ i <= Len(invocations)
    /\ invocations[i].at = "json"
    /\ Finish(i, invocations[i].response,
              IF invocations[i].fn = "runMatch"
              THEN runMatch_rest(invocations[i])
              ELSE fetchSavedMatches_rest(invocations[i]))

InitDashboard == Start({"Code contribution"})

NextDashboard ==
    \/ MountEffect
    \/ ClickReload
    \/ ClickRun
    \/ \E i \in 1..MaxInvocations : FetchSettles(i)
    \/ \E i \in 1..MaxInvocations : BodyRead(i)

SpecDashboard == InitDashboard /\ [][NextDashboard]_vars

\* every request ends: fetch settles with a response or a failure, and
\* the body of a response is read to its end
SpecDashboardLive ==
    /\ SpecDashboard
    /\ \A i \in 1..MaxInvocations :
          WF_vars(FetchSettles(i)) /\ WF_vars(BodyRead(i))

(* ---------------- properties ---------------- *)
NoDuplicates(s) == Cardinality(Range(s)) = Len(s)

\* the elements of s in first-seen order, each once
RECURSIVE FirstSeen(_)
FirstSeen(s) ==
    IF s = <<>> THEN <<>>
    ELSE LET init == FirstSeen(SubSeq(s, 1, Len(s) - 1))
         IN  IF s[Len(s)] \in Range(init) THEN init ELSE Append(init, s[Len(s)])

RECURSIVE SumCommits(_)
SumCommits(ps) ==
    IF ps = <<>> THEN 0 ELSE Head(ps).total_commits + SumCommits(Tail(ps))

RECURSIVE AllAreas(_)
AllAreas(ps) ==
    IF ps = <<>> THEN {} ELSE Range(Head(ps).expertise_areas) \cup AllAreas(Tail(ps))

\* the profiles the repositories of this request gave for a username, oldest first
ContribOf(u) == SelectSeq(contrib, LAMBDA p : p.github_username = u)

Smaller(a, b) == IF a < b THEN a ELSE b

\* the fields the merge neither sums nor unites
KeptKeys == {"frameworks", "work_style", "commit_pattern", "ai_summary",
             "best_for", "primary_languages"}

\* C1: generate_profile returns a profile for every outcome of the service
\* call: analyze_repository fails only when the fetch fails, every call of
\* the service is followed by a profile, and a 400 of /analyze is never
\* caused by synthesis.
C1_SynthesisNeverRaises ==
    /\ last_source.exc \in {"none", "GithubException"}
    /\ last_source.exc = "none" =>
          Len(last_source.profiles) = Len(last_source.calls)
    /\ (response.endpoint = "analyze" /\ response.status = 400) =>
          response.error = "GithubException"

\* a failed service call was answered with the fallback profile and the
\* repository was analyzed to the end
C1_Witness ==
    /\ last_source.exc = "none"
    /\ pc = "loop"
    /\ \E i \in 1..Len(last_source.profiles) :
          /\ SynthKeys \subseteq DOMAIN last_source.profiles[i]
          /\ last_source.profiles[i].work_style = "active contributor"

\* C2: every profile returned by generate_profile, and so every stored
\* profile, carries the six synthesized fields.
C2_ProfilesFullyPopulated ==
    /\ \A i \in 1..Len(last_source.profiles) :
          SynthKeys \subseteq DOMAIN last_source.profiles[i]
    /\ \A i \in 1..Len(profiles_file.profiles) :
          SynthKeys \subseteq DOMAIN profiles_file.profiles[i]

\* C7: in one analyze_repository run the service is called only for logins
\* with at least MinCommits commits there, and every profile the run
\* returns is the profile of such a login.
C7_BelowThresholdNoProfile ==
    /\ \A i \in 1..Len(last_source.calls) :
          last_source.calls[i] \in last_source.qualified
    /\ \A i \in 1..Len(last_source.profiles) :
          last_source.profiles[i].github_username \in last_source.qualified

\* the part of C7 about the calls alone
C7_CallsOnlyAboveThreshold ==
    \A i \in 1..Len(last_source.calls) :
        last_source.calls[i] \in last_source.qualified

C5_FirstSeenOrder ==
    \A i \in 1..Len(merge_log) :
        merge_log[i].res.expertise_areas =
            Take(FirstSeen(merge_log[i].old.expertise_areas
                           \o merge_log[i].new.expertise_areas), MaxAreas)

\* C6 as stated: a profile merged with itself has twice the count and the
\* elements of its own list, each once, whatever the length of the list.
C6_SelfMergeKeepsList ==
    \A i \in 1..Len(merge_log) :
        merge_log[i].old = merge_log[i].new =>
            /\ merge_log[i].res.total_commits = 2 * merge_log[i].old.total_commits
            /\ NoDuplicates(merge_log[i].res.expertise_areas)
            /\ Range(merge_log[i].res.expertise_areas)
                 = Range(merge_log[i].old.expertise_areas)

\* C6 amended: a profile merged with itself has twice the count and a list
\* without duplicates of min(MaxAreas, number of distinct elements) of its
\* own elements: all of them when there are at most MaxAreas.
C6_SelfMergeCapped ==
    \A i \in 1..Len(merge_log) :
        merge_log[i].old = merge_log[i].new =>
            /\ merge_log[i].res.total_commits = 2 * merge_log[i].old.total_commits
            /\ NoDuplicates(merge_log[i].res.expertise_areas)
            /\ Range(merge_log[i].res.expertise_areas)
                 \subseteq Range(merge_log[i].old.expertise_areas)
            /\ Len(merge_log[i].res.expertise_areas)
                 = Smaller(MaxAreas,
                           Cardinality(Range(merge_log[i].old.expertise_areas)))

\* a profile with more than MaxAreas distinct areas merged with itself
C6_Witness ==
    \E i \in 1..Len(merge_log) :
        /\ merge_log[i].old = merge_log[i].new
        /\ Cardinality(Range(merge_log[i].old.expertise_areas)) > MaxAreas

StoredNames == {profiles_file.profiles[i].github_username :
                  i \in 1..Len(profiles_file.profiles)}

\* C8: a search over an empty store answers 200 with no match and the
\* informational message, without calling the service.
C8_EmptyStoreNoCall ==
    (response.endpoint = "search" /\ load_profiles(profiles_file) = Ok(<<>>)) =>
        /\ response.status = 200
        /\ response.items = <<>>
        /\ response.message # ""
        /\ response.calls = 0
        /\ ~search_call.made

\* a search served from a saved, empty profiles.json
C8_Witness ==
    /\ response.endpoint = "search"
    /\ profiles_file.state = "valid"
    /\ profiles_file.profiles = <<>>

\* the usernames a response text names when it is an array of matches
NamesOf(outcome) ==
    LET matches == outcome.text[1].v.val
    IN  [i \in 1..Len(matches) |-> matches[i].val.github_username]

IsPlainMatchArray(outcome) ==
    /\ outcome.kind = "text"
    /\ Len(outcome.text) = 1
    /\ outcome.text[1].t = "json"
    /\ outcome.text[1].v.jt = "array"
    /\ \A i \in 1..Len(outcome.text[1].v.val) :
          /\ outcome.text[1].v.val[i].jt = "object"
          /\ "github_username" \in DOMAIN outcome.text[1].v.val[i].val

\* C9: every match of a successful search names a stored profile, and when
\* the service returns an array of matches the answer is 200 with exactly
\* the named profiles that are stored, in the order returned.
C9_UnknownNamesDropped ==
    response.endpoint = "search" =>
        /\ response.status = 200 =>
              \A i \in 1..Len(response.items) :
                  response.items[i].github_username \in StoredNames
        /\ (search_call.made /\ IsPlainMatchArray(search_call.outcome)) =>
              /\ response.status = 200
              /\ [i \in 1..Len(response.items) |-> response.items[i].github_username]
                   = SelectSeq(NamesOf(search_call.outcome),
                               LAMBDA u : u \in StoredNames)

\* the store holds alice and bob, the service names alice and carol, the
\* answer holds alice alone
C9_Witness ==
    /\ response.endpoint = "search"
    /\ response.status = 200
    /\ StoredNames = {"alice", "bob"}
    /\ search_call.made
    /\ IsPlainMatchArray(search_call.outcome)
    /\ NamesOf(search_call.outcome) = <<"alice", "carol">>
    /\ Len(response.items) = 1
    /\ response.items[1].github_username = "alice"

\* the call failed, or the text is not one JSON value after the fences are removed
Unparsable(outcome) ==
    \/ outcome.kind \in {"error", "timeout"}
    \/ json_loads(strip_fences(outcome.text)).exc # "none"

\* C10: with a non-empty store, a failed service call or an unparsable
\* response ends the search with status 500 and the cause, never with 200.
C10_SearchFailureIsError ==
    (/\ response.endpoint = "search"
     /\ load_profiles(profiles_file).val # <<>>
     /\ Unparsable(search_call.outcome)) =>
        /\ search_call.made
        /\ response.status = 500
        /\ response.error # "none"
        /\ response.items = <<>>

\* an unparsable text answered with 500
C10_Witness ==
    /\ response.endpoint = "search"
    /\ load_profiles(profiles_file).val # <<>>
    /\ search_call.made
    /\ search_call.outcome.kind = "text"
    /\ Unparsable(search_call.outcome)
    /\ response.status = 500

\* C11: when the fetch of one repository fails in a request that already
\* took profiles from another repository, the request goes on: it stays in
\* the loop and keeps the profiles merged so far.
C11_OtherSourcesUnaffected ==
    [][(/\ pc = "loop"
        /\ contrib # <<>>
        /\ last_source'.exc = "GithubException")
       => (/\ pc' = "loop"
           /\ all_profiles' = all_profiles
           /\ contrib' = contrib)]_vars

\* C12: whatever profiles.json holds, load_profiles returns a list.
C12_LoadNeverRaises == load_profiles(profiles_file).exc = "none"

\* the snapshots a reader may be given: the saved ones, and the empty one
\* of a store nothing was saved to
Snapshots == Range(save_log) \cup {<<>>}

\* C13: every GET /profiles, also one served by the other worker between
\* the open and the dump of a save_profiles, answers 200 with a saved
\* snapshot.
C13_LoadSeesWholeSnapshot ==
    \A r \in {response, peer.response} :
        r.endpoint = "profiles" =>
            /\ r.status = 200
            /\ r.items \in Snapshots

\* C14: when no analyze run is in progress, profiles.json holds exactly
\* the list of the save_profiles call that finished last.
C14_LastSaveWins ==
    (pc = "idle" /\ peer.pc = "idle" /\ save_log # <<>>) =>
        profiles_file = Saved(save_log[Len(save_log)])

UsernamesOf(ps) == [i \in 1..Len(ps) |-> ps[i].github_username]

\* C15: no list given to save_profiles, and so no list stored in
\* profiles.json, holds two profiles with the same github_username.
C15_UniqueIdentifiers ==
    /\ \A i \in 1..Len(save_log) : NoDuplicates(UsernamesOf(save_log[i]))
    /\ NoDuplicates(UsernamesOf(profiles_file.profiles))

\* a saved list holding a developer merged from two repositories: more
\* commits than one fetch returns
C15_Witness ==
    /\ profiles_file.state = "valid"
    /\ \E i \in 1..Len(profiles_file.profiles) :
          profiles_file.profiles[i].total_commits > MaxCommits

\* the matches of a response text that name a profile of ps, in order
KeptMatches(outcome, ps) ==
    LET matches == outcome.text[1].v.val
    IN  SelectSeq([i \in 1..Len(matches) |-> matches[i].val],
                  LAMBDA m : m.github_username \in Range(UsernamesOf(ps)))

\* the first profile of ps with the username
ProfileOf(u, ps) == ps[Min({i \in 1..Len(ps) : ps[i].github_username = u})]

\* C16: each match returned by a successful search has the fields of the
\* stored profile and of the match of the service; a field of the match
\* has the value the service gave, every other field the stored value.
C16_MatchOverProfile ==
    (/\ response.endpoint = "search"
     /\ response.status = 200
     /\ search_call.made
     /\ IsPlainMatchArray(search_call.outcome)) =>
        LET kept == KeptMatches(search_call.outcome, response.snapshot)
        IN  /\ Len(response.items) = Len(kept)
            /\ \A i \in 1..Len(kept) :
                  LET item == response.items[i]
                      match == kept[i]
                      stored == ProfileOf(match.github_username, response.snapshot)
                  IN  /\ DOMAIN item = (DOMAIN stored) \cup (DOMAIN match)
                      /\ \A k \in DOMAIN match : item[k] = match[k]
                      /\ \A k \in (DOMAIN stored) \ (DOMAIN match) :
                             item[k] = stored[k]

\* a match returned whose ai_summary differs between the service and the store
C16_Witness ==
    /\ response.endpoint = "search"
    /\ response.status = 200
    /\ search_call.made
    /\ IsPlainMatchArray(search_call.outcome)
    /\ \E i \in 1..Len(response.items) :
          LET match == KeptMatches(search_call.outcome, response.snapshot)[i]
              stored == ProfileOf(match.github_username, response.snapshot)
          IN  /\ "ai_summary" \in (DOMAIN match) \cap (DOMAIN stored)
              /\ match.ai_summary # stored.ai_summary
              /\ response.items[i].ai_summary = match.ai_summary

\* the call failed: no answer came back from the reasoning service
Unavailable(outcome) == outcome.kind \in {"error", "timeout"}

\* the language tags of the paths the activity touched, and how many of
\* the touched paths carry a tag
TagsTouched ==
    {detect_language(activity.files_changed[i]) :
        i \in 1..Len(activity.files_changed)} \ {None}

TagCount(tag) ==
    Cardinality({i \in 1..Len(activity.files_changed) :
                    detect_language(activity.files_changed[i]) = tag})

\* list holds the PrimaryLanguages most frequent tags, most frequent first
IsTopTags(list) ==
    /\ NoDuplicates(list)
    /\ Range(list) \subseteq TagsTouched
    /\ Len(list) = Smaller(PrimaryLanguages, Cardinality(TagsTouched))
    /\ \A i, j \in 1..Len(list) : i < j => TagCount(list[i]) >= TagCount(list[j])
    /\ \A t \in TagsTouched \ Range(list) :
          \A i \in 1..Len(list) : TagCount(list[i]) >= TagCount(t)

\* C17: when the call of the service fails, generate_profile returns a
\* profile whose username, name, avatar and commit count are those of the
\* aggregated activity, whose primary_languages are the most frequent
\* language tags of the touched paths (Python and JavaScript for one commit
\* on src/main.py and one on app/index.js), and whose synthesized fields
\* hold the placeholder texts.
C17_FallbackFromActivity ==
    \A i \in 1..Len(bundles) :
        Unavailable(bundles[i].outcome) =>
            LET p == bundles[i].profile
            IN  /\ bundles[i].exc = "none"
                /\ p.github_username = activity.login
                /\ p.name = activity.name
                /\ p.avatar_url = activity.avatar_url
                /\ p.total_commits = Len(activity.commits)
                /\ IsTopTags(p.primary_languages)
                /\ activity.files_changed = <<SrcMainPy, AppIndexJs>> =>
                       {"Python", "JavaScript"} \subseteq Range(p.primary_languages)
                /\ p.expertise_areas = <<"Code contribution">>
                /\ p.frameworks = <<>>
                /\ p.work_style = "active contributor"
                /\ p.commit_pattern
                     = "Made " \o ToString(Len(activity.commits)) \o " commits"
                /\ p.ai_summary = "Active contributor to repo1"
                /\ p.best_for = <<"Code review", "Technical questions">>

\* two commits of alice, on src/main.py and on app/index.js, and the
\* service down: the fallback profile with both tags
C17_Witness ==
    /\ activity.login = "alice"
    /\ Len(activity.commits) = 2
    /\ activity.files_changed = <<SrcMainPy, AppIndexJs>>
    /\ \E i \in 1..Len(bundles) :
          /\ Unavailable(bundles[i].outcome)
          /\ bundles[i].profile.primary_languages = <<"Python", "JavaScript">>
          /\ bundles[i].profile.work_style = "active contributor"

\* C18: the answer to GET /api/hello is 200 with the one fixed message,
\* whatever was posted before, and a step that ends with that answer
\* leaves the interest list as it was.
C18_HelloIsConstant ==
    /\ [](res.route = "hello" =>
            /\ res.status = 200
            /\ res.body = [message |-> "Hello world from the Penn × Anthropic backend"])
    /\ [][res'.route = "hello" => interestList' = interestList]_vars

\* GET /api/hello answered after two entries were accepted
C18_Witness ==
    /\ res.route = "hello"
    /\ res.status = 200
    /\ Len(interestList) = 2

\* C19: every two evidence bundles selected from the same activity are
\* equal, the sequence of sampled paths included.
C19_SameActivitySameEvidence ==
    \A i, j \in 1..Len(bundles) : bundles[i].evidence = bundles[j].evidence

\* C20: the sampled paths are the distinct paths of the whole touched-path
\* list in first-seen order, cut to PathSample.
C20_DedupThenTruncate ==
    \A i \in 1..Len(bundles) :
        bundles[i].evidence.file_paths
            = Take(FirstSeen(activity.files_changed), PathSample)

\* the part of C20 about the paths kept, whatever their order: no distinct
\* path is lost while fewer than PathSample are sampled
C20_NoPathLost ==
    \A i \in 1..Len(bundles) :
        Cardinality(Range(activity.files_changed)) <= PathSample =>
            Range(bundles[i].evidence.file_paths) = Range(activity.files_changed)


\* the commits of history whose author is u, in order
AuthoredBy(u, h) == SelectSeq(h, LAMBDA c : c.author = u)

\* the paths of the commits whose file list can be read, in order
RECURSIVE ReadablePaths(_)
ReadablePaths(cs) ==
    IF cs = <<>> THEN <<>>
    ELSE (IF Head(cs).files_ok THEN Head(cs).files ELSE <<>>)
            \o ReadablePaths(Tail(cs))

EntriesOf(u) == SelectSeq(author_data.data, LAMBDA e : e.login = u)

\* how often tag is counted in a Counter
Counted(counter, tag) ==
    IF \E i \in 1..Len(counter) : counter[i][1] = tag
    THEN counter[CHOOSE i \in 1..Len(counter) : counter[i][1] = tag][2]
    ELSE 0

\* C21: a commit whose file list cannot be read does not stop the
\* aggregation: every commit of a login, readable or not, is in the
\* login's entry with its additions and deletions, in order, and counts
\* for the two-commit threshold and the profile's total; the entry's paths
\* and language counts come from the readable commits only; no error.
C21_UnreadableFilesKeepCounters ==
    author_data.done =>
        /\ last_source.exc = "none"
        /\ \A u \in Users :
              LET mine == AuthoredBy(u, history)
                  paths == ReadablePaths(mine)
              IN  IF mine = <<>> THEN EntriesOf(u) = <<>>
                  ELSE /\ Len(EntriesOf(u)) = 1
                       /\ EntriesOf(u)[1].commits =
                             [i \in 1..Len(mine) |->
                                 [additions |-> mine[i].additions,
                                  deletions |-> mine[i].deletions]]
                       /\ EntriesOf(u)[1].files_changed = paths
                       /\ \A tag \in {"Python", "JavaScript"} :
                             Counted(EntriesOf(u)[1].languages, tag) =
                                Cardinality({i \in 1..Len(paths) :
                                                detect_language(paths[i]) = tag})
                       /\ (u \in last_source.qualified) <=> (Len(mine) >= MinCommits)
                       /\ Len(mine) >= MinCommits =>
                             \E i \in 1..Len(last_source.profiles) :
                                /\ last_source.profiles[i].github_username = u
                                /\ last_source.profiles[i].total_commits = Len(mine)

\* alice's first commit cannot be read, her second can: she passes the
\* threshold thanks to the first, and has the path of the second
C21_Witness ==
    /\ author_data.done
    /\ history = <<CommitLost("alice"), CommitBy("alice")>>
    /\ last_source.qualified = {"alice"}
    /\ EntriesOf("alice")[1].commits = <<[additions |-> 5, deletions |-> 3],
                                         [additions |-> 1, deletions |-> 0]>>
    /\ EntriesOf("alice")[1].files_changed = <<MainPy>>

\* C22: a commit without author is skipped without an error: the
\* author_data built from a history is the one built from the history
\* without these commits, and no entry stands for a missing author.
C22_AuthorlessCommitsDropped ==
    author_data.done =>
        /\ last_source.exc = "none"
        /\ EntriesOf(None) = <<>>
        /\ author_data.data =
              Aggregate(<<>>, SelectSeq(history, LAMBDA c : c.author # None))
        /\ last_source.qualified =
              {u \in Users : Len(AuthoredBy(u, history)) >= MinCommits}
        /\ \A i \in 1..Len(last_source.profiles) :
              last_source.profiles[i].total_commits =
                 Len(AuthoredBy(last_source.profiles[i].github_username, history))

\* a commit without author between two commits of alice
C22_Witness ==
    /\ author_data.done
    /\ history = <<CommitBy("alice"), CommitBy(None), CommitBy("alice")>>
    /\ last_source.qualified = {"alice"}
    /\ Len(author_data.data) = 1
    /\ Len(author_data.data[1].commits) = 2

\* the text is one JSON value between two fences
IsWrapped(outcome) ==
    /\ outcome.kind = "text"
    /\ \E j \in {outcome.text[i].v : i \in {k \in 1..Len(outcome.text) :
                                               outcome.text[k].t = "json"}} :
          outcome \in Wrappings(j)

\* the JSON value between the fences
Inner(outcome) ==
    outcome.text[CHOOSE i \in 1..Len(outcome.text) : outcome.text[i].t = "json"].v

\* the synthesis and the search get what the wrapped value says
RepairedFor(Texts) ==
    /\ \A i \in 1..Len(bundles) :
          (bundles[i].outcome \in Texts /\ IsWrapped(bundles[i].outcome)) =>
             /\ bundles[i].exc = "none"
             /\ \A k \in SynthKeys :
                   bundles[i].profile[k] = Inner(bundles[i].outcome).val[k]
    /\ (/\ response.endpoint = "search"
        /\ search_call.made
        /\ search_call.outcome \in Texts
        /\ IsWrapped(search_call.outcome)) =>
           /\ response.status = 200
           /\ [i \in 1..Len(response.items) |-> response.items[i].github_username]
                = SelectSeq([i \in 1..Len(Inner(search_call.outcome).val) |->
                                Inner(search_call.outcome).val[i].val.github_username],
                            LAMBDA u : u \in StoredNames)

\* C23: when the service wraps a valid JSON value in ``` fences, tagged or
\* not, at the start of the text or after a sentence, the synthesis returns
\* the profile with the fields of the value and the search returns the
\* matches of the value.
C23_WrappedResponseRepaired ==
    RepairedFor(RepairProfiles \cup RepairMatches)

\* the same for the texts that start with the fence
C23_LeadingFenceRepaired ==
    RepairedFor({o \in RepairProfiles \cup RepairMatches :
                    o.text[1].t = "fence"})

\* C24: in one analyze_repository run the service is called once for each
\* login with at least two commits and for no other, also when the call
\* fails or the text cannot be parsed: that login gets the fallback
\* profile and no second call.
C24_OneCallPerEntity ==
    author_data.done =>
        /\ NoDuplicates(last_source.calls)
        /\ Range(last_source.calls) =
              {u \in Users : Len(AuthoredBy(u, history)) >= MinCommits}
        /\ Len(bundles) = Len(last_source.calls)
        /\ \A i \in 1..Len(bundles) :
              /\ bundles[i].profile.github_username = last_source.calls[i]
              /\ Unparsable(bundles[i].outcome) =>
                    /\ bundles[i].profile.work_style = "active contributor"
                    /\ bundles[i].profile.expertise_areas = <<"Code contribution">>

\* alice has two commits and bob one, the text for alice is prose: one
\* call, for alice, and her fallback profile
C24_Witness ==
    /\ author_data.done
    /\ history = <<CommitBy("alice"), CommitBy("bob"), CommitBy("alice")>>
    /\ last_source.calls = <<"alice">>
    /\ Len(bundles) = 1
    /\ bundles[1].outcome = ServiceText(<<Prose>>)
    /\ bundles[1].profile.work_style = "active contributor"

\* C25: every profile analyze_repository returns carries the login the
\* service was called for, with the name, the avatar, the number of
\* commits and the languages of that login's activity, whatever keys the
\* response of the service holds.
C25_IdentityFromActivity ==
    \A i \in 1..Len(last_source.profiles) :
        LET u == last_source.calls[i]
            p == last_source.profiles[i]
        IN  /\ p.github_username = u
            /\ p.name = NewEntry(u).name
            /\ p.avatar_url = AvatarOf(u)
            /\ p.total_commits >= MinCommits
            /\ p.primary_languages =
                  <<detect_language(CommitBy(u).files[1])>>

\* C26: an analyze request in which a fetch fails never writes
\* profiles.json: the start of a request and every step of its loop leave
\* the file and the list of saves as they were, and the step in which the
\* fetch fails ends the request with 400 and drops the profiles gathered
\* from the repositories before it.
C26_FailedFetchSavesNothing ==
    [][/\ (pc' = "loop" \/ (pc = "loop" /\ response'.status # 200)) =>
             /\ profiles_file' = profiles_file
             /\ save_log' = save_log
       /\ (pc = "loop" /\ response'.error = "GithubException") =>
             /\ pc' = "idle"
             /\ response'.endpoint = "analyze"
             /\ response'.status = 400
             /\ response'.items = <<>>
             /\ all_profiles' = <<>>]_vars

\* a request has saved a profile, a later request met a failing fetch:
\* the file holds what the first request saved
C26_Witness ==
    /\ response.endpoint = "analyze"
    /\ response.status = 400
    /\ response.error = "GithubException"
    /\ Len(save_log) = 1
    /\ save_log[1] # <<>>
    /\ load_profiles(profiles_file) = Ok(save_log[1])

\* C27: the matches of a successful search are at most TopMatches and
\* name no stored profile twice, whatever the service answered.
C27_AtMostThreeDistinct ==
    (response.endpoint = "search" /\ response.status = 200) =>
        /\ Len(response.items) <= TopMatches
        /\ NoDuplicates(UsernamesOf(response.items))

\* C28: totalInterest of GET /api/program is the length of the interest
\* list; a request answered 201 appends its entry at the end of the list
\* and every other request, and the passing of time, leave the list as it
\* was: the length is the number of requests answered 201 so far.
C28_TotalCountsAccepted ==
    /\ [](res.route = "program" =>
            /\ res.status = 200
            /\ res.body.totalInterest = Len(interestList))
    /\ [][IF now' = now /\ res'.status = 201
          THEN /\ res'.route = "interest"
               /\ res'.body.entry.name # ""
               /\ res'.body.entry.email # ""
               /\ interestList' = Append(interestList, res'.body.entry)
          ELSE interestList' = interestList]_vars

\* two posts accepted, then GET /api/program answers 2
C28_Witness ==
    /\ res.route = "program"
    /\ res.body.totalInterest = 2
    /\ Len(interestList) = 2
    /\ interestList[1].timestamp < interestList[2].timestamp

\* C29: every call of fetchSavedMatches or runMatch runs to its end, the
\* step that ends it sets matchesLoading to false whatever the outcome of
\* its request was, and matchesLoading never stays true forever.
C29_LoadingAlwaysCleared ==
    /\ \A i \in 1..MaxInvocations :
          (i <= Len(invocations)) ~>
             (i <= Len(invocations) /\ invocations[i].at = "done")
    /\ [][\A i \in 1..Len(invocations) :
             (invocations[i].at # "done" /\ invocations'[i].at = "done") =>
                 matchesLoading' = FALSE]_vars
    /\ matchesLoading ~> ~matchesLoading

\* fetchSavedMatches ended by the early return on 404 and runMatch ended
\* by a network failure, matchesLoading false
C29_Witness ==
    /\ ~matchesLoading
    /\ \E i, j \in 1..Len(invocations) :
          /\ invocations[i].fn = "fetchSavedMatches"
          /\ invocations[i].at = "done"
          /\ invocations[i].response.status = 404
          /\ invocations[j].fn = "runMatch"
          /\ invocations[j].at = "done"
          /\ invocations[j].response = NetworkFailure

\* the calls that have not reached their end
InFlight == {i \in 1..Len(invocations) : invocations[i].at # "done"}

OneAtATime ==
    /\ Cardinality(InFlight) <= 1
    /\ matchesLoading <=> (InFlight # {})
    /\ \A a, b \in 1..Len(writes) : a < b => writes[a] <= writes[b]

\* C30: at most one call of fetchSavedMatches or runMatch is in flight,
\* matchesLoading is true exactly while one is, and setMatchResults is
\* never called by an older call after a newer one called it.
C30_OneRequestInFlight == OneAtATime

\* the same when the callback of useEffect ran before the first click
C30_OneInFlightAfterMount ==
    (invocations # <<>> /\ invocations[1].fn = "fetchSavedMatches"
                        /\ ~invocations[1].showMessage) => OneAtATime
====
